---- MODULE Spec2Model ----
(***************************************************************************)
(* Client side of the municipal services dashboard: the HTTP wrapper       *)
(* (api.js), the session store (auth.js) and the citizen dashboard's state *)
(* and render loop (citizen-dashboard.js).                                 *)
(***************************************************************************)
EXTENDS Integers, Sequences, FiniteSets, TLC

VARIABLES
    localStorage,     \* durable scope: [access_token, userData]
    sessionStorage,   \* ephemeral scope: [access_token, userData]
    location,         \* the page shown, or the page window.location.href was set to
    state,            \* citizen-dashboard.js: let state = {...}
    search,           \* value of the three search inputs
    debounce,         \* a debounced search render is pending, per resource
    rendered,         \* rows last written to each list container
    loads,            \* loadDashboardData invocations
    marks,            \* markNotificationRead invocations awaiting the server
    auths,            \* login / register / getCurrentUser calls awaiting the server
    saving,           \* saveProfile awaits the server
    timers,           \* pending setTimeout callbacks, by kind
    booted,           \* the DOMContentLoaded handler has run
    serverRead,       \* notification ids the server has confirmed read
    last,             \* the most recent completed operation and its outcome
    pure,             \* argument and result of the last helper call
    sent,             \* the requests the latest step put on the wire
    shown,            \* console traces and messages the latest step produced
    forms,            \* the request and feedback forms being submitted
    returnUrl         \* sessionStorage item 'returnUrl'

vars == <<localStorage, sessionStorage, location, state, search, debounce,
          rendered, loads, marks, auths, saving, timers, booted, serverRead,
          last, pure, sent, shown, forms, returnUrl>>

Null == "null"

(***************************************************************************)
(* Bounds of the model.                                                    *)
(***************************************************************************)
MaxLoads == 2
MaxMarks == 1
MaxAuths == 1
MaxItems == 2
MaxTimers == 1

(***************************************************************************)
(* JavaScript strings.  A string is a TLA+ string; CharsOf gives the       *)
(* characters of the strings that are searched or lowered.                 *)
(***************************************************************************)
CharsOf(s) ==
    CASE s = ""          -> <<>>
      [] s = "Permit"    -> <<"P", "e", "r", "m", "i", "t">>
      [] s = "permit"    -> <<"p", "e", "r", "m", "i", "t">>
      [] s = "Tax"       -> <<"T", "a", "x">>
      [] s = "tax"       -> <<"t", "a", "x">>
      [] s = "PAID"      -> <<"P", "A", "I", "D">>
      [] s = "paid"      -> <<"p", "a", "i", "d">>
      [] s = "APPROVED"  -> <<"A", "P", "P", "R", "O", "V", "E", "D">>
      [] s = "approved"  -> <<"a", "p", "p", "r", "o", "v", "e", "d">>
      [] s = "perm"      -> <<"p", "e", "r", "m">>
      [] s = "PERM"      -> <<"P", "E", "R", "M">>
      [] s = "zzz"       -> <<"z", "z", "z">>
      [] s = "a"         -> <<"a">>
      [] s = "A"         -> <<"A">>
      [] s = "Cash"      -> <<"C", "a", "s", "h">>
      [] s = "Noise"     -> <<"N", "o", "i", "s", "e">>

CasePairs ==
    { <<"P", "p">>, <<"E", "e">>, <<"R", "r">>, <<"M", "m">>, <<"T", "t">>,
      <<"A", "a">>, <<"I", "i">>, <<"D", "d">>, <<"O", "o">>, <<"V", "v">>,
      <<"C", "c">>, <<"N", "n">> }

\* String.prototype.toLowerCase, character by character
toLowerCase(cs) ==
    [i \in 1..Len(cs) |->
        IF \E p \in CasePairs : p[1] = cs[i]
        THEN (CHOOSE p \in CasePairs : p[1] = cs[i])[2]
        ELSE cs[i]]

\* String.prototype.includes on character sequences
includes(hay, needle) ==
    \E i \in 0..(Len(hay) - Len(needle)) :
        \A j \in 1..Len(needle) : hay[i + j] = needle[j]

None == <<>>
Some(x) == <<x>>

(***************************************************************************)
(* auth.js: the session store.  A scope pair is [ls |-> localStorage,      *)
(* ss |-> sessionStorage]; a scope is [access_token, userData].            *)
(***************************************************************************)
\* JSON.stringify / JSON.parse of the profile object kept under 'userData':
\* the text is a tuple around the object, and NoText is getItem() of the
\* missing key
JSONstringify(obj) == <<"json", obj>>
JSONparse(str) == str[2]
NoText == <<>>

EmptyScope == [access_token |-> Null, userData |-> NoText]

\* a || b on item values: null is falsy
OrElse(a, b) == IF a # Null THEN a ELSE b

getAuthToken(st) == OrElse(st.ls.access_token, st.ss.access_token)

setAuthToken(st, token, remember) ==
    [ls |-> IF remember THEN [st.ls EXCEPT !.access_token = token] ELSE st.ls,
     ss |-> [st.ss EXCEPT !.access_token = token]]

\* a clear that forgets the durable scope
clearAuthToken_SessionOnly(st) ==
    [ls |-> st.ls, ss |-> [access_token |-> Null, userData |-> NoText]]

clearAuthToken(st) ==
    [ls |-> [access_token |-> Null, userData |-> NoText],
     ss |-> [access_token |-> Null, userData |-> NoText]]

getUserData(st) ==
    LET data == IF st.ls.userData # NoText THEN st.ls.userData ELSE st.ss.userData
    IN  IF data # NoText THEN Some(JSONparse(data)) ELSE None

setUserData(st, userData, remember) ==
    LET dataString == JSONstringify(userData)
    IN  [ls |-> IF remember THEN [st.ls EXCEPT !.userData = dataString] ELSE st.ls,
         ss |-> [st.ss EXCEPT !.userData = dataString]]

isAuthenticated(st) == getAuthToken(st) # Null

AuthPage == "/frontend/citizen/auth.html"
DashboardPage == "/frontend/citizen/dashboard.html"

(***************************************************************************)
(* api.js: apiRequest.  A response is what fetch() produced:               *)
(*   net    - FALSE when fetch itself rejected (transport failure), with   *)
(*            netmsg the browser's message for it;                         *)
(*   status - the HTTP status;                                             *)
(*   json   - whether the body parses as JSON;                             *)
(*   body   - the parsed body: [detailKind, detail, message] as an error   *)
(*            body carries them, payload for the data of a success.        *)
(* A message is a tuple of strings (the parts joined by ', ').             *)
(***************************************************************************)
SessionExpired == <<"Session expired. Please login again.">>
CannotConnect == <<"Cannot connect to server. Please check your connection.">>
RequestFailed == <<"Request failed">>
FailedToFetch == <<"Failed to fetch">>
SyntaxError == <<"SyntaxError: Unexpected token in JSON">>

\* a response body: the error fields apiRequest reads, and the payload
NoBody == [detailKind |-> "none", detail |-> <<>>, message |-> <<>>, payload |-> <<>>]
Payload(p) == [NoBody EXCEPT !.payload = p]
Detail(kind, d) == [NoBody EXCEPT !.detailKind = kind, !.detail = d]

\* lines 45-53: the message extracted from an error body
ErrorMessage(data) ==
    IF data.detailKind = "string" THEN data.detail
    ELSE IF data.detailKind = "array" THEN data.detail
    ELSE IF data.message # <<>> THEN data.message
    ELSE RequestFailed

\* lines 33-65: what apiRequest does with a response.
\* [throws, msg, data, clears]: clears = clearAuthToken() and the redirect ran.
apiRequest(resp) ==
    IF ~resp.net THEN
        [throws |-> TRUE,
         msg |-> IF resp.netmsg = FailedToFetch THEN CannotConnect ELSE resp.netmsg,
         data |-> <<>>, clears |-> FALSE]
    ELSE IF ~resp.json THEN
        [throws |-> TRUE, msg |-> SyntaxError, data |-> <<>>, clears |-> FALSE]
    ELSE IF resp.status \notin 200..299 THEN
        IF resp.status = 401 THEN
            [throws |-> TRUE, msg |-> SessionExpired, data |-> <<>>, clears |-> TRUE]
        ELSE
            LET errorMessage == ErrorMessage(resp.body)
            IN  [throws |-> TRUE,
                 msg |-> IF errorMessage = FailedToFetch THEN CannotConnect
                         ELSE errorMessage,
                 data |-> <<>>, clears |-> FALSE]
    ELSE [throws |-> FALSE, msg |-> <<>>, data |-> resp.body.payload, clears |-> FALSE]

\* the session store after apiRequest handled the response
AfterApi(st, out) == IF out.clears THEN clearAuthToken(st) ELSE st
LocationAfterApi(loc, out) == IF out.clears THEN AuthPage ELSE loc

\* the responses of the server (and of the network) to one call
TransportFailure ==
    [net |-> FALSE, netmsg |-> FailedToFetch, status |-> 0, json |-> FALSE, body |-> NoBody]
HttpResponse(status, json, body) ==
    [net |-> TRUE, netmsg |-> <<>>, status |-> status, json |-> json, body |-> body]
Unauthorized == HttpResponse(401, TRUE, Detail("string", <<"Could not validate credentials">>))
Failures ==
    { TransportFailure,
      Unauthorized,
      HttpResponse(401, FALSE, NoBody),
      HttpResponse(500, TRUE, Detail("string", <<"Internal Server Error">>)) }
Successes(payloads) == { HttpResponse(200, TRUE, Payload(p)) : p \in payloads }
Responses(payloads) == Failures \cup Successes(payloads)
\* the dashboard's calls: the failure that clears the session and one that
\* does not
DashboardResponses(payloads) == {TransportFailure, Unauthorized} \cup Successes(payloads)

\* lines 18-23: ...(token && { 'Authorization': `Bearer ${token}` }); the
\* header is the tuple of what follows 'Bearer ', empty when there is none
AuthHeader(token) == IF token # Null THEN <<token>> ELSE <<>>

\* a request as fetch() receives it; an endpoint is the tuple of its parts
Request(method, endpoint, auth) == [method |-> method, endpoint |-> endpoint, auth |-> auth]

\* apiGet / apiPost / apiPut (lines 70-92) with the session store st
ApiCall(method, endpoint, st) == Request(method, endpoint, AuthHeader(getAuthToken(st)))

\* console.log / console.error, showMessage, showElementMessage, alert
Out(via, target, type, text) == [via |-> via, target |-> target, type |-> type, text |-> text]

\* what a step sends and shows
Emit(requests, outputs) == sent' = requests /\ shown' = outputs
Quiet == Emit({}, <<>>)

(***************************************************************************)
(* citizen-dashboard.js: status lookups.  statusMap and classMap are       *)
(* object literals, so obj[key] also finds what Object.prototype defines.  *)
(***************************************************************************)
Undefined == "undefined"
NativeValue == "[inherited from Object.prototype]"
ObjectPrototypeKeys ==
    { "constructor", "toString", "valueOf", "hasOwnProperty", "isPrototypeOf",
      "propertyIsEnumerable", "toLocaleString", "__proto__" }

\* obj[key] for an object literal whose own properties are the function own
PropertyLookup(own, key) ==
    IF key \in DOMAIN own THEN own[key]
    ELSE IF key \in ObjectPrototypeKeys THEN NativeValue
    ELSE Undefined

statusMap ==
    [s \in { "SUBMITTED", "UNDER_REVIEW", "UNDER_INVESTIGATION", "IN_PROGRESS",
             "APPROVED", "REJECTED", "PAID", "COMPLETED", "RESOLVED", "CLOSED",
             "PENDING", "FAILED", "REFUNDED" } |->
        CASE s = "SUBMITTED" -> "Submitted"
          [] s = "UNDER_REVIEW" -> "Under Review"
          [] s = "UNDER_INVESTIGATION" -> "Under Investigation"
          [] s = "IN_PROGRESS" -> "In Progress"
          [] s = "APPROVED" -> "Approved"
          [] s = "REJECTED" -> "Rejected"
          [] s = "PAID" -> "Paid"
          [] s = "COMPLETED" -> "Completed"
          [] s = "RESOLVED" -> "Resolved"
          [] s = "CLOSED" -> "Closed"
          [] s = "PENDING" -> "Pending"
          [] s = "FAILED" -> "Failed"
          [] s = "REFUNDED" -> "Refunded"]

classMap ==
    [s \in DOMAIN statusMap |->
        CASE s \in {"SUBMITTED", "PENDING", "REFUNDED"} -> "submitted"
          [] s \in {"UNDER_REVIEW", "UNDER_INVESTIGATION", "IN_PROGRESS"} -> "under-review"
          [] s = "APPROVED" -> "approved"
          [] s \in {"REJECTED", "FAILED"} -> "rejected"
          [] s = "PAID" -> "paid"
          [] s \in {"COMPLETED", "RESOLVED", "CLOSED"} -> "completed"]

\* return statusMap[status] || status
formatStatus(status) ==
    LET v == PropertyLookup(statusMap, status)
    IN  IF v # Undefined THEN v ELSE status

\* return classMap[status] || 'submitted'
getStatusClass(status) ==
    LET v == PropertyLookup(classMap, status)
    IN  IF v # Undefined THEN v ELSE "submitted"

(***************************************************************************)
(* citizen-dashboard.js: search and the render functions.  A search term   *)
(* is a sequence of characters; a rendered list is the sequence of the     *)
(* items it shows, in order.                                               *)
(***************************************************************************)
\* field.split('.').reduce((obj, key) => obj?.[key], item) for a plain key
FieldValue(item, field) == IF field \in DOMAIN item THEN item[field] ELSE Null

\* a search that wants the term in every listed field
filterBySearch_Every(items, searchTerm, fields) ==
    IF searchTerm = <<>> THEN items
    ELSE LET term == toLowerCase(searchTerm)
             Hit(item) ==
                 \A field \in fields :
                     LET value == FieldValue(item, field)
                     IN  /\ value # Null
                         /\ value # ""
                         /\ includes(toLowerCase(CharsOf(value)), term)
         IN  SelectSeq(items, Hit)

filterBySearch(items, searchTerm, fields) ==
    IF searchTerm = <<>> THEN items
    ELSE LET term == toLowerCase(searchTerm)
             Hit(item) ==
                 \E field \in fields :
                     LET value == FieldValue(item, field)
                     IN  /\ value # Null
                         /\ value # ""
                         /\ includes(toLowerCase(CharsOf(value)), term)
         IN  SelectSeq(items, Hit)

RequestFields == {"request_type", "description", "status"}
ComplaintFields == {"title", "category", "description", "status"}
PaymentFields == {"payment_method", "status"}

\* a render that searches the whole collection, dropping the status filter
RenderList_SearchAll(collection, statusFilter, searchValue, fields) ==
    LET searchTerm == toLowerCase(searchValue)
        byStatus == IF statusFilter # "all"
                    THEN SelectSeq(collection, LAMBDA r : r.status = statusFilter)
                    ELSE collection
    IN  IF searchTerm # <<>> THEN filterBySearch(collection, searchTerm, fields)
        ELSE byStatus

\* the filter-then-search body shared by renderRequests, renderComplaints
\* and renderPayments (lines 190-199, 222-231, 254-263)
RenderList(collection, statusFilter, searchValue, fields) ==
    LET searchTerm == toLowerCase(searchValue)
        byStatus == IF statusFilter # "all"
                    THEN SelectSeq(collection, LAMBDA r : r.status = statusFilter)
                    ELSE collection
    IN  IF searchTerm # <<>> THEN filterBySearch(byStatus, searchTerm, fields)
        ELSE byStatus

renderRequests(st, srch) ==
    RenderList(st.requests, st.filters.requests, srch.requests, RequestFields)
renderComplaints(st, srch) ==
    RenderList(st.complaints, st.filters.complaints, srch.complaints, ComplaintFields)
renderPayments(st, srch) ==
    RenderList(st.payments, st.filters.payments, srch.payments, PaymentFields)
renderNotifications(st) ==
    IF st.filters.notifications = "unread"
    THEN SelectSeq(st.notifications, LAMBDA n : ~n.is_read)
    ELSE IF st.filters.notifications = "read"
    THEN SelectSeq(st.notifications, LAMBDA n : n.is_read)
    ELSE st.notifications

\* updateSummaryCards: the unread count written to the badge (lines 178-181)
unreadNotifications(st) == Len(SelectSeq(st.notifications, LAMBDA n : ~n.is_read))

\* updateSummaryCards and the four render calls that end loadDashboardData
\* (lines 132-136)
RenderAll(st, srch) ==
    [requests |-> renderRequests(st, srch),
     complaints |-> renderComplaints(st, srch),
     payments |-> renderPayments(st, srch),
     notifications |-> renderNotifications(st),
     badge |-> unreadNotifications(st)]

(***************************************************************************)
(* The data the server holds for the signed-in citizen.                    *)
(***************************************************************************)
Resources == {"requests", "complaints", "payments", "notifications"}
NotifIds == {1, 2}

ReqA == [request_id |-> 1, request_type |-> "Permit", description |-> "", status |-> "PAID"]
ReqB == [request_id |-> 2, request_type |-> "Tax", description |-> "permit", status |-> "APPROVED"]
CmpA == [complaint_id |-> 1, title |-> "Noise", category |-> "Tax", description |-> "",
         status |-> "SUBMITTED"]
PayA == [payment_id |-> 1, payment_method |-> "Cash", status |-> "PAID"]

\* GET /notifications/my-notifications answered when the server holds read
Snapshot(read) ==
    [i \in 1..Cardinality(NotifIds) |-> [notification_id |-> i, is_read |-> i \in read]]

ServerProfile == [email |-> "ann@example.org", first_name |-> "Ann"]
Users ==
    { [user_id |-> 1, email |-> "ann@example.org", role |-> "citizen"],
      [user_id |-> 2, email |-> "bob@example.org", role |-> "employee"] }
Tokens == {"tok1", "tok2", "tok3"}

\* the endpoint of each collection (api.js lines 138, 160, 169, 200)
Endpoint(r) ==
    CASE r = "requests" -> <<"/requests/my-requests">>
      [] r = "complaints" -> <<"/complaints/my-complaints">>
      [] r = "payments" -> <<"/payments/my-payments">>
      [] r = "notifications" -> <<"/notifications/my-notifications?unread_only=false">>

\* the lists each collection endpoint may answer with
CollectionPayloads(r, read) ==
    CASE r = "requests" -> { <<>>, <<ReqA, ReqB>> }
      [] r = "complaints" -> { <<CmpA>> }
      [] r = "payments" -> { <<PayA>> }
      [] r = "notifications" -> { Snapshot(read) }

(***************************************************************************)
(* citizen-dashboard.js: the dashboard state and loadDashboardData.        *)
(***************************************************************************)
InitialState ==
    [currentTab |-> "dashboard", requests |-> <<>>, complaints |-> <<>>,
     payments |-> <<>>, notifications |-> <<>>, profile |-> None,
     filters |-> [requests |-> "all", complaints |-> "all", payments |-> "all",
                  notifications |-> "all"]]

Stores == [ls |-> localStorage, ss |-> sessionStorage]

\* one of the four promises of Promise.all: st is "none" before the call is
\* issued, then "pending", then "settled" (fulfilled) or "rejected"; failed
\* and body record what the server call did, data what the promise holds
NoSlot == [st |-> "none", failed |-> FALSE, body |-> <<>>, data |-> <<>>]
PendingSlot == [NoSlot EXCEPT !.st = "pending"]
\* profile is the local variable profile, pfail whether getProfile() rejected;
\* seq numbers the loads in the order their collection calls were issued
IdleLoad ==
    [pc |-> "idle", profile |-> None, pfail |-> FALSE, seq |-> 0,
     slots |-> [r \in Resources |-> NoSlot]]

\* a collection call without its .catch: the rejection reaches Promise.all
CatchEmpty_Missing(out) ==
    IF out.throws
    THEN [st |-> "rejected", failed |-> TRUE, body |-> <<>>, data |-> <<>>]
    ELSE [st |-> "settled", failed |-> FALSE, body |-> out.data, data |-> out.data]

\* X.getMyX().catch(() => []) (lines 117-120)
CatchEmpty(out) ==
    IF out.throws
    THEN [st |-> "settled", failed |-> TRUE, body |-> <<>>, data |-> <<>>]
    ELSE [st |-> "settled", failed |-> FALSE, body |-> out.data, data |-> out.data]

\* a fallback that ignores the cached session
FallbackProfile_Anonymous(st) == [email |-> "User", first_name |-> Null]

\* let profile = { email: userData?.email || 'User' } (lines 104-105)
FallbackProfile(st) ==
    LET userData == getUserData(st)
    IN  [email |-> IF userData # None THEN userData[1].email ELSE "User",
         first_name |-> Null]

\* lines 124-128; every payload is a list, which x || [] leaves as it is
UpdateState(st, load) ==
    [st EXCEPT !.profile = load.profile,
               !.requests = load.slots.requests.data,
               !.complaints = load.slots.complaints.data,
               !.payments = load.slots.payments.data,
               !.notifications = load.slots.notifications.data]

Observed(op, arg, resp, out) ==
    [op |-> op, arg |-> arg, net |-> resp.net, status |-> resp.status,
     json |-> resp.json, throws |-> out.throws, msg |-> out.msg, data |-> out.data]
Local(op, arg) ==
    [op |-> op, arg |-> arg, net |-> TRUE, status |-> 0, json |-> TRUE,
     throws |-> FALSE, msg |-> <<>>, data |-> <<>>]

\* a promise continuation is queued: it runs before any other event
Microtask ==
    \/ \E l \in DOMAIN loads :
         /\ loads[l].pc = "fetch"
         /\ \/ \A r \in Resources : loads[l].slots[r].st = "settled"
            \/ \E r \in Resources : loads[l].slots[r].st = "rejected"
    \/ \E m \in DOMAIN marks : marks[m].pc \in {"fulfilled", "rejected"}

\* the start of loadDashboardData, up to the await of the profile (99-109)
LoadStart(l) ==
    /\ loads' = [loads EXCEPT ![l] = [IdleLoad EXCEPT
                                         !.pc = "profile",
                                         !.profile = Some(FallbackProfile(Stores))]]
    /\ Emit({ApiCall("GET", <<"/citizens/me">>, Stores)}, <<>>)

\* DOMContentLoaded (lines 24-49): the check does not stop the handler
PageLoad ==
    /\ ~Microtask
    /\ ~booted
    /\ booted' = TRUE
    /\ location' = IF ~isAuthenticated(Stores) THEN AuthPage ELSE location
    /\ LoadStart(1)
    /\ UNCHANGED <<localStorage, sessionStorage, state, search, debounce, rendered,
                   marks, auths, saving, timers, serverRead, last, pure,
                   forms, returnUrl>>

\* CitizenAPI.getProfile() settles; the four collection calls go out (108-121)
LoadProfile(l, responses) ==
    /\ ~Microtask
    /\ loads[l].pc = "profile"
    /\ \E resp \in responses :
         LET out == apiRequest(resp)
             st == AfterApi(Stores, out)
         IN  /\ loads' = [loads EXCEPT
                    ![l].pc = "fetch",
                    ![l].profile = IF out.throws THEN @ ELSE Some(out.data[1]),
                    ![l].pfail = out.throws,
                    ![l].seq = 1 + Cardinality({k \in DOMAIN loads : loads[k].seq > 0}),
                    ![l].slots = [r \in Resources |-> PendingSlot]]
             /\ localStorage' = st.ls
             /\ sessionStorage' = st.ss
             /\ location' = LocationAfterApi(location, out)
             /\ Emit({ApiCall("GET", Endpoint(r), st) : r \in Resources},
                     IF out.throws
                     THEN <<Out("console.log", "", "",
                                <<"Profile fetch failed (expected for swapped roles):">>
                                    \o out.msg)>>
                     ELSE <<>>)
    /\ UNCHANGED <<state, search, debounce, rendered, marks, auths, saving, timers,
                   booted, serverRead, last, pure, forms, returnUrl>>

\* one of the four collection calls settles (lines 117-120)
LoadFetch(l, r, responses) ==
    /\ ~Microtask
    /\ loads[l].pc = "fetch"
    /\ loads[l].slots[r].st = "pending"
    /\ \E resp \in responses :
         LET out == apiRequest(resp)
             st == AfterApi(Stores, out)
         IN  /\ loads' = [loads EXCEPT ![l].slots[r] = CatchEmpty(out)]
             /\ localStorage' = st.ls
             /\ sessionStorage' = st.ss
             /\ location' = LocationAfterApi(location, out)
    /\ Quiet
    /\ UNCHANGED <<state, search, debounce, rendered, marks, auths, saving, timers,
                   booted, serverRead, last, pure, forms, returnUrl>>

\* Promise.all settled: the state is updated and rendered (lines 123-136), or
\* a rejection reaches the outer catch (lines 138-140)
LoadContinue(l) ==
    /\ loads[l].pc = "fetch"
    /\ IF \E r \in Resources : loads[l].slots[r].st = "rejected"
       THEN /\ loads' = [loads EXCEPT ![l] = [IdleLoad EXCEPT !.pc = "error"]]
            /\ UNCHANGED <<state, rendered>>
            /\ Emit({}, <<Out("console.error", "", "", <<"Error loading dashboard data:">>),
                          Out("showMessage", "", "error",
                              <<"Failed to load dashboard data: ">>)>>)
       ELSE /\ \A r \in Resources : loads[l].slots[r].st = "settled"
            /\ state' = UpdateState(state, loads[l])
            /\ rendered' = RenderAll(state', search)
            /\ loads' = [loads EXCEPT ![l] = [IdleLoad EXCEPT !.pc = "done",
                                                              !.seq = loads[l].seq]]
            /\ Quiet
    /\ UNCHANGED <<localStorage, sessionStorage, location, search, debounce, marks,
                   auths, saving, timers, booted, serverRead, last, pure,
                   forms, returnUrl>>

(***************************************************************************)
(* The filter buttons and the search inputs (lines 62-81, 313-335).        *)
(***************************************************************************)
RequestFilters == {"all", "PAID", "APPROVED"}
ComplaintFilters == {"all", "SUBMITTED"}
PaymentFilters == {"all", "PAID"}
NotificationFilters == {"all", "unread", "read"}
SearchTerms ==
    { <<>>, <<"p", "e", "r", "m">>, <<"P", "E", "R", "M">>, <<"z", "z", "z">>,
      <<"a">>, <<"A">> }

\* a filter that narrows the cached collection itself
SetFilter_Narrowing(st, resource, status) ==
    [st EXCEPT !.filters[resource] = status,
               ![resource] = IF status = "all" \/ resource = "notifications" THEN @
                             ELSE SelectSeq(@, LAMBDA r : r.status = status)]

\* state.filters.<resource> = status
SetFilter(st, resource, status) == [st EXCEPT !.filters[resource] = status]

filterRequests(st, status) == SetFilter(st, "requests", status)
filterComplaints(st, status) == SetFilter(st, "complaints", status)
filterPayments(st, status) == SetFilter(st, "payments", status)
filterNotifications(st, filter) == SetFilter(st, "notifications", filter)

FilterFrame ==
    /\ Quiet
    /\ UNCHANGED <<localStorage, sessionStorage, location, search, debounce, loads,
                marks, auths, saving, timers, booted, serverRead, last, pure,
                forms, returnUrl>>

FilterRequests ==
    /\ ~Microtask
    /\ booted
    /\ \E status \in RequestFilters :
         /\ state' = filterRequests(state, status)
         /\ rendered' = [rendered EXCEPT !.requests = renderRequests(state', search)]
    /\ FilterFrame

FilterComplaints ==
    /\ ~Microtask
    /\ booted
    /\ \E status \in ComplaintFilters :
         /\ state' = filterComplaints(state, status)
         /\ rendered' = [rendered EXCEPT !.complaints = renderComplaints(state', search)]
    /\ FilterFrame

FilterPayments ==
    /\ ~Microtask
    /\ booted
    /\ \E status \in PaymentFilters :
         /\ state' = filterPayments(state, status)
         /\ rendered' = [rendered EXCEPT !.payments = renderPayments(state', search)]
    /\ FilterFrame

FilterNotifications ==
    /\ ~Microtask
    /\ booted
    /\ \E filter \in NotificationFilters :
         /\ state' = filterNotifications(state, filter)
         /\ rendered' = [rendered EXCEPT !.notifications = renderNotifications(state')]
    /\ FilterFrame

\* an input event on a search box: debounce(renderX, 300) re-arms its timer
SearchInput(r) ==
    /\ ~Microtask
    /\ booted
    /\ \E term \in SearchTerms :
         /\ search' = [search EXCEPT ![r] = term]
    /\ debounce' = [debounce EXCEPT ![r] = TRUE]
    /\ Quiet
    /\ UNCHANGED <<localStorage, sessionStorage, location, state, rendered, loads,
                   marks, auths, saving, timers, booted, serverRead, last, pure,
                   forms, returnUrl>>

\* the debounced render runs
DebounceFire(r) ==
    /\ ~Microtask
    /\ debounce[r]
    /\ debounce' = [debounce EXCEPT ![r] = FALSE]
    /\ Quiet
    /\ rendered' = [rendered EXCEPT ![r] =
            CASE r = "requests" -> renderRequests(state, search)
              [] r = "complaints" -> renderComplaints(state, search)
              [] r = "payments" -> renderPayments(state, search)]
    /\ UNCHANGED <<localStorage, sessionStorage, location, state, search, loads,
                   marks, auths, saving, timers, booted, serverRead, last, pure,
                   forms, returnUrl>>

(***************************************************************************)
(* markNotificationRead (lines 570-584).                                   *)
(***************************************************************************)
IdleCall == [pc |-> "idle", op |-> "none", arg |-> 0, remember |-> FALSE]

\* state.notifications.find(n => n.notification_id === notificationId)
FindNotification(st, notificationId) ==
    LET hits == {i \in DOMAIN st.notifications :
                    st.notifications[i].notification_id = notificationId}
    IN  IF hits = {} THEN 0 ELSE CHOOSE i \in hits : \A j \in hits : i <= j

\* an optimistic update: the flag is set whatever the server answered
markNotificationRead_Optimistic(st, notificationId, out) ==
    LET i == FindNotification(st, notificationId)
    IN  IF i = 0 THEN st ELSE [st EXCEPT !.notifications[i].is_read = TRUE]

\* the state once NotificationAPI.markAsRead settled with out
markNotificationRead(st, notificationId, out) ==
    LET i == FindNotification(st, notificationId)
    IN  IF out.throws \/ i = 0 THEN st
        ELSE [st EXCEPT !.notifications[i].is_read = TRUE]

\* a click on a rendered notification row (line 300)
MarkStart(m) ==
    /\ ~Microtask
    /\ booted
    /\ marks[m].pc = "idle"
    /\ \A k \in 1..(m - 1) : marks[k].pc # "idle"
    /\ \E i \in DOMAIN rendered.notifications :
         LET id == rendered.notifications[i].notification_id
         IN  /\ marks' = [marks EXCEPT ![m] =
                    [pc |-> "sent", op |-> "markNotificationRead", arg |-> id,
                     remember |-> FALSE]]
             /\ Emit({ApiCall("PUT", <<"/notifications/", id, "/read">>, Stores)}, <<>>)
    /\ UNCHANGED <<localStorage, sessionStorage, location, state, search, debounce,
                   rendered, loads, auths, saving, timers, booted, serverRead, last, pure,
                   forms, returnUrl>>

\* PUT /notifications/{id}/read settles
MarkSettle(m, responses) ==
    /\ ~Microtask
    /\ marks[m].pc = "sent"
    /\ \E resp \in responses :
         LET out == apiRequest(resp)
             st == AfterApi(Stores, out)
         IN  /\ serverRead' = IF resp.net /\ resp.status \in 200..299
                              THEN serverRead \cup {marks[m].arg} ELSE serverRead
             /\ marks' = [marks EXCEPT
                    ![m].pc = IF out.throws THEN "rejected" ELSE "fulfilled"]
             /\ Quiet
             /\ localStorage' = st.ls
             /\ sessionStorage' = st.ss
             /\ location' = LocationAfterApi(location, out)
    /\ UNCHANGED <<state, search, debounce, rendered, loads, auths, saving, timers,
                   booted, last, pure, forms, returnUrl>>

\* the rest of markNotificationRead after the await (lines 574-583)
MarkContinue(m) ==
    /\ marks[m].pc \in {"fulfilled", "rejected"}
    /\ LET out == [throws |-> marks[m].pc = "rejected"]
           found == ~out.throws /\ FindNotification(state, marks[m].arg) # 0
       IN  /\ state' = markNotificationRead(state, marks[m].arg, out)
           /\ rendered' = IF found
                          THEN [rendered EXCEPT
                                  !.notifications = renderNotifications(state'),
                                  !.badge = unreadNotifications(state')]
                          ELSE rendered
    /\ marks' = [marks EXCEPT ![m] = IdleCall]
    /\ Emit({}, IF marks[m].pc = "rejected"
                THEN <<Out("console.error", "", "",
                           <<"Error marking notification as read:">>)>>
                ELSE <<>>)
    /\ UNCHANGED <<localStorage, sessionStorage, location, search, debounce, loads,
                   auths, saving, timers, booted, serverRead, last, pure,
                   forms, returnUrl>>

(***************************************************************************)
(* saveProfile (lines 533-566) and the load it schedules.                  *)
(***************************************************************************)
StartedLoads == Cardinality({l \in DOMAIN loads : loads[l].pc # "idle"})

\* a save that reloads the dashboard whatever the server answered
ReloadTimers_Always(t, out) == [t EXCEPT !.load = @ + 1]

\* setTimeout(() => { closeModal(...); loadDashboardData(); }, 1500) sits in
\* the try block after the await (lines 552-559)
ReloadTimers(t, out) == IF out.throws THEN t ELSE [t EXCEPT !.load = @ + 1]

SaveStart ==
    /\ ~Microtask
    /\ booted
    /\ ~saving
    /\ StartedLoads + timers.load < MaxLoads
    /\ saving' = TRUE
    /\ Emit({ApiCall("PUT", <<"/citizens/me">>, Stores)}, <<>>)
    /\ UNCHANGED <<localStorage, sessionStorage, location, state, search, debounce,
                   rendered, loads, marks, auths, timers, booted, serverRead, last, pure,
                   forms, returnUrl>>

\* PUT /citizens/me settles; on success setTimeout(..., 1500) is armed
SaveSettle(responses) ==
    /\ ~Microtask
    /\ saving
    /\ saving' = FALSE
    /\ \E resp \in responses :
         LET out == apiRequest(resp)
             st == AfterApi(Stores, out)
         IN  /\ timers' = ReloadTimers(timers, out)
             /\ localStorage' = st.ls
             /\ sessionStorage' = st.ss
             /\ location' = LocationAfterApi(location, out)
             /\ last' = Observed("CitizenAPI.updateProfile", 0, resp, out)
             /\ Emit({}, <<IF out.throws
                           THEN Out("showElementMessage", "profile-message", "error",
                                    out.msg)
                           ELSE Out("showElementMessage", "profile-message", "success",
                                    <<"Profile updated successfully!">>)>>)
    /\ UNCHANGED <<state, search, debounce, rendered, loads, marks, auths, booted,
                   serverRead, pure, forms, returnUrl>>

\* the timer of saveProfile fires: closeModal, loadDashboardData()
TimerLoad ==
    /\ ~Microtask
    /\ timers.load > 0
    /\ timers' = [timers EXCEPT !.load = @ - 1]
    /\ \E l \in DOMAIN loads :
         /\ loads[l].pc = "idle"
         /\ \A k \in 1..(l - 1) : loads[k].pc # "idle"
         /\ LoadStart(l)
    /\ UNCHANGED <<localStorage, sessionStorage, location, state, search, debounce,
                   rendered, marks, auths, saving, booted, serverRead, last, pure,
                   forms, returnUrl>>

(***************************************************************************)
(* auth.js: logout (lines 81-86); confirmed is the answer to confirm().    *)
(***************************************************************************)
logout(st, confirmed) == IF confirmed THEN clearAuthToken(st) ELSE st

Logout ==
    /\ ~Microtask
    /\ \E confirmed \in BOOLEAN :
         LET st == logout(Stores, confirmed)
         IN  /\ localStorage' = st.ls
             /\ sessionStorage' = st.ss
             /\ location' = IF confirmed THEN AuthPage ELSE location
             /\ last' = [Local("logout", IF confirmed THEN 1 ELSE 0)
                            EXCEPT !.data = <<[access_token |-> getAuthToken(Stores)]>>]
    /\ Quiet
    /\ UNCHANGED <<state, search, debounce, rendered, loads, marks, auths, saving,
                   timers, booted, serverRead, pure, forms, returnUrl>>

(***************************************************************************)
(* auth.js: login, register, getCurrentUser and initAuth.  A call is       *)
(* [pc, op, arg, remember]: arg is the user who signs in.                  *)
(***************************************************************************)
\* the { user_id, email, role } kept by login and register (lines 103-107)
Projection(data) == [user_id |-> data.user_id, email |-> data.email, role |-> data.role]

\* the body of POST /auth/login and /auth/register for user: a new token
AuthPayloads(user, st) ==
    { <<[access_token |-> t, user_id |-> user.user_id, email |-> user.email,
         role |-> user.role]>> :
        t \in Tokens \ {st.ls.access_token, st.ss.access_token} }

\* the body of GET /auth/me for the user of the session
MePayloads(st) ==
    LET cached == getUserData(st)
    IN  IF cached = None THEN {}
        ELSE { <<[user_id |-> cached[1].user_id, email |-> cached[1].email,
                  role |-> cached[1].role, profile |-> "profile"]>> }

\* login (lines 95-113) once AuthAPI.login answered with out
login(st, out, remember) ==
    IF out.throws THEN st
    ELSE setUserData(setAuthToken(st, out.data[1].access_token, remember),
                     Projection(out.data[1]), remember)

\* register (lines 120-136) once AuthAPI.register answered with out
register(st, out) ==
    IF out.throws THEN st
    ELSE setUserData(setAuthToken(st, out.data[1].access_token, TRUE),
                     Projection(out.data[1]), TRUE)

\* error.message.includes('401') || error.message.includes('Session expired')
MentionsExpiry(msg) == msg = SessionExpired

\* getCurrentUser (lines 142-164) once AuthAPI.getCurrentUser answered
getCurrentUser(st, out) ==
    IF out.throws
    THEN IF MentionsExpiry(out.msg) THEN clearAuthToken(st) ELSE st
    ELSE setUserData(st, [user_id |-> out.data[1].user_id, email |-> out.data[1].email,
                          role |-> out.data[1].role, profile |-> out.data[1].profile],
                     TRUE)

\* initAuth (lines 197-209) once its getCurrentUser settled
initAuth(st, out) ==
    IF out.throws THEN clearAuthToken(getCurrentUser(st, out))
    ELSE getCurrentUser(st, out)

\* the endpoint behind each call (api.js lines 116-118)
AuthEndpoint(op) ==
    CASE op = "login" -> <<"/auth/login">>
      [] op = "register" -> <<"/auth/register">>
      [] OTHER -> <<"/auth/me">>

AuthFrame ==
    UNCHANGED <<state, search, debounce, rendered, loads, marks, saving, timers,
                booted, serverRead, pure, forms, returnUrl>>

\* a sign-in, a registration, a profile refresh or a page's initAuth begins
AuthStart(a) ==
    /\ auths[a].pc = "idle"
    /\ \A k \in 1..(a - 1) : auths[k].pc # "idle"
    /\ \/ \E user \in Users, remember \in BOOLEAN :
            auths' = [auths EXCEPT ![a] =
                [pc |-> "sent", op |-> "login", arg |-> user.user_id, remember |-> remember]]
       \/ \E user \in Users :
            auths' = [auths EXCEPT ![a] =
                [pc |-> "sent", op |-> "register", arg |-> user.user_id, remember |-> TRUE]]
       \/ \E op \in {"getCurrentUser", "initAuth"} :
            /\ isAuthenticated(Stores)
            /\ auths' = [auths EXCEPT ![a] =
                [pc |-> "sent", op |-> op, arg |-> 0, remember |-> TRUE]]
    /\ last' = Local("call", a)
    /\ Emit({ApiCall(IF auths'[a].op \in {"login", "register"} THEN "POST" ELSE "GET",
                     AuthEndpoint(auths'[a].op), Stores)}, <<>>)
    /\ UNCHANGED <<localStorage, sessionStorage, location>>
    /\ AuthFrame

\* the call settles: apiRequest handles the response, then the caller
AuthSettle(a) ==
    /\ auths[a].pc = "sent"
    /\ LET call == auths[a]
           payloads ==
               IF call.op \in {"login", "register"}
               THEN AuthPayloads(CHOOSE u \in Users : u.user_id = call.arg, Stores)
               ELSE MePayloads(Stores)
       IN  \E resp \in Responses(payloads) :
             LET out == apiRequest(resp)
                 st0 == AfterApi(Stores, out)
                 st == CASE call.op = "login" -> login(st0, out, call.remember)
                         [] call.op = "register" -> register(st0, out)
                         [] call.op = "getCurrentUser" -> getCurrentUser(st0, out)
                         [] call.op = "initAuth" -> initAuth(st0, out)
             IN  /\ localStorage' = st.ls
                 /\ sessionStorage' = st.ss
                 /\ location' =
                        IF out.clears \/ (call.op \in {"getCurrentUser", "initAuth"}
                                          /\ out.throws /\ MentionsExpiry(out.msg))
                        THEN AuthPage ELSE location
                 /\ last' = [Observed(call.op, call.arg, resp, out)
                                EXCEPT !.arg = IF call.remember THEN 1 ELSE 0]
                 /\ Emit({}, IF call.op = "initAuth" /\ out.throws
                             THEN <<Out("console.error", "", "",
                                        <<"Auth initialization failed:">>)>>
                             ELSE <<>>)
    /\ auths' = [auths EXCEPT ![a] = IdleCall]
    /\ AuthFrame

(***************************************************************************)
(* auth.js: requireAuth, hasRole and requireRole (lines 68-76, 171-191).   *)
(* A guard answers [result, location, returnUrl, alerts]: what it returns, *)
(* where the page is afterwards, sessionStorage's returnUrl and the        *)
(* alerts it raised.                                                       *)
(***************************************************************************)
\* the roles a page may require: the two of the doc comment and one nobody has
Roles == {"citizen", "employee", "admin"}

\* requireAuth() with the default redirectUrl (lines 68-76)
requireAuth(st, loc, ret) ==
    IF ~isAuthenticated(st)
    THEN [result |-> FALSE, location |-> AuthPage, returnUrl |-> loc, alerts |-> <<>>]
    ELSE [result |-> TRUE, location |-> loc, returnUrl |-> ret, alerts |-> <<>>]

\* userData && userData.role === requiredRole (lines 171-174)
hasRole(st, requiredRole) ==
    LET userData == getUserData(st)
    IN  userData # None /\ userData[1].role = requiredRole

AccessDenied(requiredRole) ==
    Out("alert", "", "", <<"Access denied. This page is for ", requiredRole, "s only.">>)

\* a guard that looks at the role before the token
requireRole_RoleFirst(st, loc, ret, requiredRole, redirectUrl) ==
    IF ~hasRole(st, requiredRole)
    THEN [result |-> FALSE, location |-> redirectUrl, returnUrl |-> ret,
          alerts |-> <<AccessDenied(requiredRole)>>]
    ELSE requireAuth(st, loc, ret)

\* lines 181-191
requireRole(st, loc, ret, requiredRole, redirectUrl) ==
    LET auth == requireAuth(st, loc, ret)
    IN  IF ~auth.result THEN auth
        ELSE IF ~hasRole(st, requiredRole)
        THEN [result |-> FALSE, location |-> redirectUrl, returnUrl |-> ret,
              alerts |-> <<AccessDenied(requiredRole)>>]
        ELSE [result |-> TRUE, location |-> loc, returnUrl |-> ret, alerts |-> <<>>]

\* a page calls requireRole
RequireRole ==
    /\ \E requiredRole \in Roles, redirectUrl \in {AuthPage, DashboardPage} :
         LET guard == requireRole(Stores, location, returnUrl, requiredRole, redirectUrl)
         IN  /\ location' = guard.location
             /\ returnUrl' = guard.returnUrl
             /\ last' = [Local("requireRole", 0) EXCEPT
                            !.data = <<[role |-> requiredRole, redirectUrl |-> redirectUrl,
                                        result |-> guard.result]>>]
             /\ Emit({}, guard.alerts)
    /\ UNCHANGED <<localStorage, sessionStorage, state, search, debounce, rendered,
                   loads, marks, auths, saving, timers, booted, serverRead, pure, forms>>

(***************************************************************************)
(* The dashboard page: from the page load on.                              *)
(***************************************************************************)
LoggedIn(user, token, remember) ==
    setUserData(setAuthToken([ls |-> EmptyScope, ss |-> EmptyScope], token, remember),
                user, remember)

NoPure == [fn |-> "none", arg |-> <<>>, result |-> <<>>]

\* no form is being submitted
IdleForm == [pc |-> "idle", file |-> FALSE, created |-> FALSE]
IdleForms == [request |-> IdleForm, feedback |-> IdleForm, refresh |-> IdleForm]

InitDashboard ==
    /\ state = InitialState
    /\ search = [requests |-> <<>>, complaints |-> <<>>, payments |-> <<>>]
    /\ debounce = [requests |-> FALSE, complaints |-> FALSE, payments |-> FALSE]
    /\ rendered = [requests |-> <<>>, complaints |-> <<>>, payments |-> <<>>,
                   notifications |-> <<>>, badge |-> 0]
    /\ loads = [l \in 1..MaxLoads |-> IdleLoad]
    /\ marks = [m \in 1..MaxMarks |-> IdleCall]
    /\ auths = [a \in 1..MaxAuths |-> IdleCall]
    /\ saving = FALSE
    /\ timers = [load |-> 0, requests |-> 0, feedback |-> 0]
    /\ booted = FALSE
    /\ serverRead = {}
    /\ last = Local("none", 0)
    /\ pure = NoPure
    /\ sent = {}
    /\ shown = <<>>
    /\ forms = IdleForms
    /\ returnUrl = Null

\* the dashboard page opened by a signed-in citizen
Init ==
    /\ InitDashboard
    /\ location = DashboardPage
    /\ \E remember \in BOOLEAN :
         LET st == LoggedIn(CHOOSE u \in Users : u.user_id = 1, "tok1", remember)
         IN  localStorage = st.ls /\ sessionStorage = st.ss

\* the answers of a server that is up: only the notification calls fail
QuietResponses(r, read) ==
    IF r = "notifications" THEN DashboardResponses(CollectionPayloads(r, read))
    ELSE Successes(CollectionPayloads(r, read))

\* The dashboard with overlapping loads and mark-read calls.
Next ==
    \/ PageLoad
    \/ \E l \in 1..MaxLoads : LoadProfile(l, Successes({<<ServerProfile>>}))
    \/ \E l \in 1..MaxLoads, r \in Resources :
         LoadFetch(l, r, QuietResponses(r, serverRead))
    \/ \E l \in 1..MaxLoads : LoadContinue(l)
    \/ \E m \in 1..MaxMarks : MarkStart(m)
    \/ \E m \in 1..MaxMarks : MarkSettle(m, DashboardResponses({<<>>}))
    \/ \E m \in 1..MaxMarks : MarkContinue(m)
    \/ SaveStart
    \/ SaveSettle(Successes({<<ServerProfile>>}))
    \/ TimerLoad

Spec == Init /\ [][Next]_vars

\* Overlapping loads, every call of which the server answers: the page
\* load and the reloads that saveProfile schedules.
NextRace ==
    \/ PageLoad
    \/ SaveStart
    \/ SaveSettle(Successes({<<ServerProfile>>}))
    \/ TimerLoad
    \/ \E l \in 1..MaxLoads : LoadProfile(l, Successes({<<ServerProfile>>}))
    \/ \E l \in 1..MaxLoads, r \in Resources :
         LoadFetch(l, r, Successes(CollectionPayloads(r, serverRead)))
    \/ \E l \in 1..MaxLoads : LoadContinue(l)

SpecRace == Init /\ [][NextRace]_vars

\* The page load alone, every call of it failing in every way.
NextLoad ==
    \/ PageLoad
    \/ \E l \in 1..MaxLoads : LoadProfile(l, Responses({<<ServerProfile>>}))
    \/ \E l \in 1..MaxLoads, r \in Resources :
         LoadFetch(l, r, Responses(CollectionPayloads(r, serverRead)))
    \/ \E l \in 1..MaxLoads : LoadContinue(l)

SpecLoad == Init /\ [][NextLoad]_vars

\* The dashboard page opened by a visitor who may hold no session.
InitBoot ==
    /\ InitDashboard
    /\ location = DashboardPage
    /\ \E st \in {[ls |-> EmptyScope, ss |-> EmptyScope]}
                    \cup {LoggedIn(u, "tok1", r) : u \in Users, r \in BOOLEAN} :
         localStorage = st.ls /\ sessionStorage = st.ss

SpecBoot == InitBoot /\ [][NextLoad]_vars

\* The session store: sign-in, registration, refresh and logout.
InitAuth ==
    /\ InitDashboard
    /\ location = AuthPage
    /\ localStorage = EmptyScope
    /\ sessionStorage = EmptyScope

NextAuth ==
    \/ \E a \in 1..MaxAuths : AuthStart(a)
    \/ \E a \in 1..MaxAuths : AuthSettle(a)
    \/ Logout

SpecAuth == InitAuth /\ [][NextAuth]_vars

\* The role guard, called on either page by a visitor who is signed out or
\* signed in under either role, and who may log out.
InitRole ==
    /\ InitDashboard
    /\ location \in {AuthPage, DashboardPage}
    /\ \E st \in {[ls |-> EmptyScope, ss |-> EmptyScope]}
                    \cup {LoggedIn(u, t, r) : u \in Users, t \in {"tok1", "tok2"},
                                                  r \in BOOLEAN} :
         localStorage = st.ls /\ sessionStorage = st.ss

NextRole ==
    \/ RequireRole
    \/ Logout

SpecRole == InitRole /\ [][NextRole]_vars

\* The lists of a loaded dashboard: the filter buttons and the request
\* search box, over every small requests collection.
ReqC == [request_id |-> 3, request_type |-> "Tax", description |-> "", status |-> "PAID"]
ReqD == [request_id |-> 4, request_type |-> "Permit", description |-> "Tax", status |-> "APPROVED"]
RequestItems == {ReqA, ReqB, ReqC, ReqD}

\* the lists of at most n distinct items
ListsUpTo(items, n) ==
    UNION { { q \in [1..k -> items] : \A i, j \in 1..k : i # j => q[i] # q[j] } : k \in 0..n }

\* the dashboard once its first load is over, holding reqs and the
\* notifications of which the server has the set read as read
LoadedDashboard(reqs, read) ==
    /\ location = DashboardPage
    /\ LET st == LoggedIn(CHOOSE u \in Users : u.user_id = 1, "tok1", TRUE)
       IN  localStorage = st.ls /\ sessionStorage = st.ss
    /\ serverRead = read
    /\ state = [InitialState EXCEPT !.requests = reqs,
                                    !.complaints = <<CmpA>>,
                                    !.payments = <<PayA>>,
                                    !.notifications = Snapshot(read),
                                    !.profile = Some(ServerProfile)]
    /\ search = [requests |-> <<>>, complaints |-> <<>>, payments |-> <<>>]
    /\ debounce = [requests |-> FALSE, complaints |-> FALSE, payments |-> FALSE]
    /\ rendered = RenderAll(state, search)
    /\ loads = [l \in 1..MaxLoads |-> IF l = 1 THEN [IdleLoad EXCEPT !.pc = "done"]
                                      ELSE IdleLoad]
    /\ marks = [m \in 1..MaxMarks |-> IdleCall]
    /\ auths = [a \in 1..MaxAuths |-> IdleCall]
    /\ saving = FALSE
    /\ timers = [load |-> 0, requests |-> 0, feedback |-> 0]
    /\ booted = TRUE
    /\ last = Local("none", 0)
    /\ pure = NoPure
    /\ sent = {}
    /\ shown = <<>>
    /\ forms = IdleForms
    /\ returnUrl = Null

InitView == \E reqs \in ListsUpTo(RequestItems, MaxItems) : LoadedDashboard(reqs, {1})

NextView ==
    \/ FilterRequests
    \/ FilterComplaints
    \/ FilterPayments
    \/ FilterNotifications
    \/ SearchInput("requests")
    \/ DebounceFire("requests")

SpecView == InitView /\ [][NextView]_vars

\* The notification list of a loaded dashboard: mark-read calls that the
\* server answers in every way, and the notification filter.
InitMark == \E read \in SUBSET NotifIds : LoadedDashboard(<<ReqA, ReqB>>, read)

NextMark ==
    \/ \E m \in 1..MaxMarks : MarkStart(m)
    \/ \E m \in 1..MaxMarks : MarkSettle(m, Responses({<<>>}))
    \/ \E m \in 1..MaxMarks : MarkContinue(m)
    \/ FilterNotifications

SpecMark == InitMark /\ [][NextMark]_vars

(***************************************************************************)
(* citizen-dashboard.js: handleFeedback (lines 466-504).                   *)
(***************************************************************************)
\* what the hidden rating input may hold when the form is submitted
RatingInputs == {"0", "1", "5", "-1", "", "abc"}

\* parseInt(value) (line 469): <<n>> for a number, NaN when no digit leads
NaN == <<>>
parseInt(value) ==
    CASE value = "0" -> <<0>>
      [] value = "1" -> <<1>>
      [] value = "5" -> <<5>>
      [] value = "-1" -> <<-1>>
      [] OTHER -> NaN

\* rating === 0 (line 470)
RatingMissing(rating) == rating = <<0>>

\* the submit handler up to the await of FeedbackAPI.create (lines 466-488)
HandleFeedback ==
    /\ ~Microtask
    /\ booted
    /\ forms.feedback.pc = "idle"
    /\ timers.feedback < MaxTimers
    /\ \E value \in RatingInputs :
         /\ last' = [Local("handleFeedback", 0) EXCEPT !.data = <<[input |-> value]>>]
         /\ IF RatingMissing(parseInt(value))
            THEN /\ Emit({}, <<Out("showElementMessage", "feedback-modal-message",
                                   "error", <<"Please select a rating">>)>>)
                 /\ UNCHANGED forms
            ELSE /\ Emit({ApiCall("POST", <<"/feedbacks/">>, Stores)}, <<>>)
                 /\ forms' = [forms EXCEPT !.feedback.pc = "sent"]
    /\ UNCHANGED <<localStorage, sessionStorage, location, state, search, debounce,
                   rendered, loads, marks, auths, saving, timers, booted, serverRead,
                   pure, returnUrl>>

\* POST /feedbacks/ settles (lines 488-503)
FeedbackSettle(responses) ==
    /\ ~Microtask
    /\ forms.feedback.pc = "sent"
    /\ forms' = [forms EXCEPT !.feedback.pc = "idle"]
    /\ \E resp \in responses :
         LET out == apiRequest(resp)
             st == AfterApi(Stores, out)
         IN  /\ localStorage' = st.ls
             /\ sessionStorage' = st.ss
             /\ location' = LocationAfterApi(location, out)
             /\ timers' = IF out.throws THEN timers
                          ELSE [timers EXCEPT !.feedback = @ + 1]
             /\ last' = Observed("FeedbackAPI.create", 0, resp, out)
             /\ Emit({}, <<IF out.throws
                           THEN Out("showElementMessage", "feedback-modal-message",
                                    "error", out.msg)
                           ELSE Out("showElementMessage", "feedback-modal-message",
                                    "success", <<"Thank you for your feedback!">>)>>)
    /\ UNCHANGED <<state, search, debounce, rendered, loads, marks, auths, saving,
                   booted, serverRead, pure, returnUrl>>

\* the timer of handleFeedback fires (lines 492-498)
TimerFeedback ==
    /\ ~Microtask
    /\ timers.feedback > 0
    /\ timers' = [timers EXCEPT !.feedback = @ - 1]
    /\ last' = Local("timer", 0)
    /\ Emit({}, <<Out("showMessage", "", "success",
                      <<"Feedback submitted successfully!">>)>>)
    /\ UNCHANGED <<localStorage, sessionStorage, location, state, search, debounce,
                   rendered, loads, marks, auths, saving, booted, serverRead, pure,
                   forms, returnUrl>>

(***************************************************************************)
(* citizen-dashboard.js: handleNewRequest (lines 425-464) and api.js:      *)
(* FileAPI.uploadRequestFile (lines 229-248).  forms.request is            *)
(* [pc, file, created]: file is whether an attachment was chosen, created  *)
(* records that RequestAPI.create fulfilled (the code keeps newRequest in  *)
(* a local of the try block).                                              *)
(***************************************************************************)
\* 'Authorization': `Bearer ${token}` (api.js lines 236-238)
UploadAuthHeader(token) == <<token>>

FileUploadFailed == <<"File upload failed">>

\* api.js lines 234-247: fetch, then response.json() on either branch
uploadRequestFile(resp) ==
    IF ~resp.net THEN
        [throws |-> TRUE, msg |-> resp.netmsg, data |-> <<>>, clears |-> FALSE]
    ELSE IF ~resp.json THEN
        [throws |-> TRUE, msg |-> SyntaxError, data |-> <<>>, clears |-> FALSE]
    ELSE IF resp.status \notin 200..299 THEN
        [throws |-> TRUE,
         msg |-> IF resp.body.detailKind # "none" THEN resp.body.detail
                 ELSE FileUploadFailed,
         data |-> <<>>, clears |-> FALSE]
    ELSE [throws |-> FALSE, msg |-> <<>>, data |-> resp.body.payload, clears |-> FALSE]

\* the catch block of handleNewRequest (lines 458-459)
RequestFailure(error) ==
    Out("showElementMessage", "request-modal-message", "error", error.msg)

\* lines 446-456: the success message and setTimeout(..., 1500)
RequestSuccess ==
    Out("showElementMessage", "request-modal-message", "success",
        <<"Request submitted successfully!">>)

\* the submit handler up to the await of RequestAPI.create (lines 425-438)
HandleNewRequest ==
    /\ ~Microtask
    /\ booted
    /\ forms.request.pc = "idle"
    /\ timers.requests < MaxTimers
    /\ \E file \in BOOLEAN :
         /\ forms' = [forms EXCEPT !.request = [IdleForm EXCEPT !.pc = "create",
                                                                !.file = file]]
         /\ last' = [Local("handleNewRequest", 0) EXCEPT !.data = <<[file |-> file]>>]
    /\ Emit({ApiCall("POST", <<"/requests/">>, Stores)}, <<>>)
    /\ UNCHANGED <<localStorage, sessionStorage, location, state, search, debounce,
                   rendered, loads, marks, auths, saving, timers, booted, serverRead,
                   pure, returnUrl>>

\* POST /requests/ settles (lines 438-459): the upload starts when a file
\* was chosen, else the handler finishes
RequestCreateSettle(responses) ==
    /\ ~Microtask
    /\ forms.request.pc = "create"
    /\ \E resp \in responses :
         LET out == apiRequest(resp)
             st == AfterApi(Stores, out)
         IN  /\ localStorage' = st.ls
             /\ sessionStorage' = st.ss
             /\ location' = LocationAfterApi(location, out)
             /\ last' = Observed("RequestAPI.create", 0, resp, out)
             /\ IF out.throws
                THEN /\ Emit({}, <<RequestFailure(out)>>)
                     /\ forms' = [forms EXCEPT !.request.pc = "idle"]
                     /\ UNCHANGED timers
                ELSE IF forms.request.file
                THEN /\ Emit({Request("POST",
                                      <<"/files/requests/", out.data[1].request_id,
                                        "/upload">>,
                                      UploadAuthHeader(getAuthToken(st)))}, <<>>)
                     /\ forms' = [forms EXCEPT !.request.pc = "upload",
                                               !.request.created = TRUE]
                     /\ UNCHANGED timers
                ELSE /\ Emit({}, <<RequestSuccess>>)
                     /\ forms' = [forms EXCEPT !.request.pc = "idle",
                                               !.request.created = TRUE]
                     /\ timers' = [timers EXCEPT !.requests = @ + 1]
    /\ UNCHANGED <<state, search, debounce, rendered, loads, marks, auths, saving,
                   booted, serverRead, pure, returnUrl>>

\* the upload settles (lines 441-459)
UploadSettle(responses) ==
    /\ ~Microtask
    /\ forms.request.pc = "upload"
    /\ forms' = [forms EXCEPT !.request.pc = "idle"]
    /\ \E resp \in responses :
         LET out == uploadRequestFile(resp)
         IN  /\ last' = Observed("FileAPI.uploadRequestFile", 0, resp, out)
             /\ timers' = IF out.throws THEN timers
                          ELSE [timers EXCEPT !.requests = @ + 1]
             /\ Emit({}, <<IF out.throws THEN RequestFailure(out) ELSE RequestSuccess>>)
    /\ UNCHANGED <<localStorage, sessionStorage, location, state, search, debounce,
                   rendered, loads, marks, auths, saving, booted, serverRead, pure,
                   returnUrl>>

\* the timer of handleNewRequest fires (lines 449-452): closeModal, reset,
\* RequestAPI.getMyRequests()
TimerRequests ==
    /\ ~Microtask
    /\ timers.requests > 0
    /\ forms.refresh.pc = "idle"
    /\ timers' = [timers EXCEPT !.requests = @ - 1]
    /\ forms' = [forms EXCEPT !.refresh.pc = "fetch"]
    /\ last' = Local("refreshTimer", 0)
    /\ Emit({ApiCall("GET", Endpoint("requests"), Stores)}, <<>>)
    /\ UNCHANGED <<localStorage, sessionStorage, location, state, search, debounce,
                   rendered, loads, marks, auths, saving, booted, serverRead, pure,
                   returnUrl>>

\* GET /requests/my-requests settles (lines 452-455); a rejection leaves the
\* async callback as an unhandled rejection, which the browser reports
RefreshSettle(responses) ==
    /\ ~Microtask
    /\ forms.refresh.pc = "fetch"
    /\ forms' = [forms EXCEPT !.refresh.pc = "idle"]
    /\ \E resp \in responses :
         LET out == apiRequest(resp)
             st == AfterApi(Stores, out)
         IN  /\ localStorage' = st.ls
             /\ sessionStorage' = st.ss
             /\ location' = LocationAfterApi(location, out)
             /\ last' = Observed("RequestAPI.getMyRequests", 0, resp, out)
             /\ state' = IF out.throws THEN state
                         ELSE [state EXCEPT !.requests = out.data]
             /\ rendered' = IF out.throws THEN rendered
                            ELSE [rendered EXCEPT !.requests = renderRequests(state', search)]
             /\ Emit({}, <<IF out.throws
                           THEN Out("unhandledrejection", "", "error", out.msg)
                           ELSE Out("showMessage", "", "success",
                                    <<"Request submitted successfully!">>)>>)
    /\ UNCHANGED <<search, debounce, loads, marks, auths, saving, timers, booted,
                   serverRead, pure, returnUrl>>

\* The forms of a loaded dashboard.
InitForms == LoadedDashboard(<<ReqA>>, {1})

\* what the file endpoint answers
UploadResponses ==
    { TransportFailure,
      HttpResponse(413, TRUE, Detail("string", <<"File too large">>)),
      HttpResponse(500, TRUE, NoBody),
      HttpResponse(200, TRUE, Payload(<<>>)) }

NextForms ==
    \/ HandleFeedback
    \/ FeedbackSettle(DashboardResponses({<<>>}))
    \/ TimerFeedback
    \/ HandleNewRequest
    \/ RequestCreateSettle(DashboardResponses({<<ReqB>>}))
    \/ UploadSettle(UploadResponses)
    \/ TimerRequests
    \/ RefreshSettle(DashboardResponses({<<ReqA, ReqB>>}))

SpecForms == InitForms /\ [][NextForms]_vars

\* The profile form of a loaded dashboard: the save, its timer and the
\* reload it starts.
NextSave ==
    \/ SaveStart
    \/ SaveSettle(Responses({<<ServerProfile>>}))
    \/ TimerLoad
    \/ \E l \in 1..MaxLoads : LoadProfile(l, Successes({<<ServerProfile>>}))
    \/ \E l \in 1..MaxLoads, r \in Resources :
         LoadFetch(l, r, DashboardResponses(CollectionPayloads(r, serverRead)))
    \/ \E l \in 1..MaxLoads : LoadContinue(l)

SpecSave == InitForms /\ [][NextSave]_vars

\* The helpers, called on their own.
StatusInputs ==
    DOMAIN statusMap \cup {"", "UNKNOWN", "paid", "constructor", "toString", "__proto__"}
PureItems ==
    { [request_type |-> "Permit"],
      [request_type |-> "Tax", description |-> "permit"],
      [request_type |-> "", description |-> "Tax"],
      [description |-> "PAID"] }
PureFields == { {"request_type"}, {"request_type", "description"} }

PureFrame ==
    /\ Quiet
    /\ UNCHANGED <<localStorage, sessionStorage, location, state, search, debounce,
                rendered, loads, marks, auths, saving, timers, booted, serverRead,
                last, forms, returnUrl>>

CallFormatStatus ==
    /\ \E status \in StatusInputs :
         pure' = [fn |-> "formatStatus", arg |-> <<status>>,
                  result |-> <<formatStatus(status)>>]
    /\ PureFrame

CallGetStatusClass ==
    /\ \E status \in StatusInputs :
         pure' = [fn |-> "getStatusClass", arg |-> <<status>>,
                  result |-> <<getStatusClass(status)>>]
    /\ PureFrame

CallFilterBySearch ==
    /\ \E items \in ListsUpTo(PureItems, MaxItems), term \in SearchTerms,
          fields \in PureFields :
         pure' = [fn |-> "filterBySearch", arg |-> <<items, term, fields>>,
                  result |-> <<filterBySearch(items, term, fields)>>]
    /\ PureFrame

\* what fetch may do to one call: the failures and a success, a transport
\* failure worded as another browser words it, and server errors whose
\* body carries a message of the server's choosing
ApiResponses ==
    Responses({<<>>})
        \cup { [TransportFailure EXCEPT
                  !.netmsg = <<"NetworkError when attempting to fetch resource.">>],
               HttpResponse(502, TRUE, Detail("string", FailedToFetch)),
               HttpResponse(400, TRUE, [NoBody EXCEPT !.message = <<"Bad request">>]),
               HttpResponse(503, TRUE, NoBody) }

\* apiRequest called on its own (api.js lines 17-65)
CallApiRequest ==
    /\ \E resp \in ApiResponses :
         LET out == apiRequest(resp)
             st == AfterApi(Stores, out)
         IN  /\ pure' = [fn |-> "apiRequest", arg |-> <<"GET", resp>>, result |-> <<out>>]
             /\ localStorage' = st.ls
             /\ sessionStorage' = st.ss
             /\ location' = LocationAfterApi(location, out)
    /\ Emit({ApiCall("GET", <<"/auth/test">>, Stores)}, <<>>)
    /\ UNCHANGED <<state, search, debounce, rendered, loads, marks, auths, saving,
                   timers, booted, serverRead, last, forms, returnUrl>>

NextPure ==
    \/ CallFormatStatus
    \/ CallGetStatusClass
    \/ CallFilterBySearch
    \/ CallApiRequest

SpecPure == InitAuth /\ [][NextPure]_vars

(***************************************************************************)
(* C1: whichever of the four collection fetches of a load fail, the load   *)
(* ends without reporting an error, and it stores the empty list for each  *)
(* failed collection and the server's response for each successful one.    *)
(***************************************************************************)
C1_PartialFailure ==
    [][\A l \in DOMAIN loads :
          /\ loads'[l].pc # "error"
          /\ (loads[l].pc = "fetch" /\ loads'[l].pc = "done") =>
                \A r \in Resources :
                    state'[r] = IF loads[l].slots[r].failed THEN <<>>
                                ELSE loads[l].slots[r].body]_vars

\* a load ended with three collections failed and the requests populated
C1_Witness ==
    /\ \E l \in DOMAIN loads : loads[l].pc = "done"
    /\ state.requests = <<ReqA, ReqB>>
    /\ state.complaints = <<>>
    /\ state.payments = <<>>
    /\ state.notifications = <<>>

(***************************************************************************)
(* C2: when the server call of markNotificationRead fails, no step of the  *)
(* call changes a cached notification: the is_read flags are as before.    *)
(***************************************************************************)
C2_FailedMarkKeepsFlags ==
    [][\A m \in DOMAIN marks :
          (marks'[m].pc = "rejected" \/ (marks[m].pc = "rejected" /\ marks'[m].pc = "idle"))
              => state'.notifications = state.notifications]_vars

\* a mark-read call failed while its notification is cached unread
C2_Witness ==
    \E m \in DOMAIN marks :
        /\ marks[m].pc = "rejected"
        /\ \E i \in DOMAIN state.notifications :
             /\ state.notifications[i].notification_id = marks[m].arg
             /\ ~state.notifications[i].is_read

(***************************************************************************)
(* C3: the cached flags never diverge from the confirmed server state: a   *)
(* cached notification is read only if the server confirmed it, and when   *)
(* no call is in flight no cached notification is unread that the server   *)
(* has confirmed read.                                                     *)
(***************************************************************************)
Quiescent ==
    /\ \A l \in DOMAIN loads : loads[l].pc \in {"idle", "done", "error"}
    /\ \A m \in DOMAIN marks : marks[m].pc = "idle"
    /\ ~saving
    /\ timers.load = 0

C3_NeverDiverges ==
    /\ \A i \in DOMAIN state.notifications :
         state.notifications[i].is_read =>
            state.notifications[i].notification_id \in serverRead
    /\ Quiescent =>
         \A i \in DOMAIN state.notifications :
            state.notifications[i].notification_id \in serverRead =>
                state.notifications[i].is_read

(***************************************************************************)
(* C4: after a successful login the token and the profile projection are   *)
(* in both scopes when remember is true, and in the ephemeral scope only   *)
(* (not in the durable one) when remember is false.                        *)
(***************************************************************************)
C4_LoginScopes ==
    [][\A a \in DOMAIN auths :
          (auths[a].pc = "sent" /\ auths[a].op = "login" /\ auths'[a].pc = "idle"
              /\ ~last'.throws) =>
            LET token == last'.data[1].access_token
                profile == JSONstringify(Projection(last'.data[1]))
            IN  /\ sessionStorage'.access_token = token
                /\ sessionStorage'.userData = profile
                /\ IF auths[a].remember
                   THEN /\ localStorage'.access_token = token
                        /\ localStorage'.userData = profile
                   ELSE /\ localStorage'.access_token # token
                        /\ localStorage'.userData # profile]_vars

(***************************************************************************)
(* C5, as claimed: whenever logout is invoked, both scopes end up without  *)
(* token and profile and isAuthenticated() is false.                       *)
(***************************************************************************)
Cleared(ls, ss) == ls = EmptyScope /\ ss = EmptyScope

C5_LogoutUnconditional ==
    [][last'.op = "logout" =>
          /\ Cleared(localStorage', sessionStorage')
          /\ ~isAuthenticated([ls |-> localStorage', ss |-> sessionStorage'])]_vars

(***************************************************************************)
(* C5, amended: a logout the user confirms clears both scopes and leaves   *)
(* isAuthenticated() false; a logout the user declines changes nothing.    *)
(***************************************************************************)
C5_LogoutConfirmed ==
    [][last'.op = "logout" =>
          IF last'.arg = 1
          THEN /\ Cleared(localStorage', sessionStorage')
               /\ ~isAuthenticated([ls |-> localStorage', ss |-> sessionStorage'])
          ELSE UNCHANGED <<localStorage, sessionStorage>>]_vars

\* a confirmed logout of a remembered session has emptied both scopes
C5_Witness ==
    /\ last.op = "logout"
    /\ last.arg = 1
    /\ last.data[1].access_token # Null
    /\ Cleared(localStorage, sessionStorage)

(***************************************************************************)
(* C6: whenever a call through apiRequest is answered with status 401,     *)
(* whatever the body, the session store is cleared and the caller gets the *)
(* 'Session expired. Please login again.' failure.                         *)
(***************************************************************************)
C6_UnauthorizedClears ==
    [][\A a \in DOMAIN auths :
          (auths[a].pc = "sent" /\ auths'[a].pc = "idle" /\ last'.net
              /\ last'.status = 401) =>
            /\ last'.throws
            /\ last'.msg = SessionExpired
            /\ Cleared(localStorage', sessionStorage')]_vars

(***************************************************************************)
(* C7: the rows renderRequests selects for collection C, filter F and      *)
(* search S are the rows selected for F and the empty search that also     *)
(* match S in C, in the same order; filtering after searching selects the  *)
(* same rows.                                                              *)
(***************************************************************************)
\* the items of list that occur in other, in the order of list
Intersect(list, other) ==
    SelectSeq(list, LAMBDA x : \E i \in DOMAIN other : other[i] = x)

ByStatus(list, statusFilter) ==
    IF statusFilter = "all" THEN list
    ELSE SelectSeq(list, LAMBDA r : r.status = statusFilter)

C7_FilterSearchCommute ==
    LET C == state.requests
        F == state.filters.requests
        S == search.requests
        rows == RenderList(C, F, S, RequestFields)
        matches == filterBySearch(C, S, RequestFields)
    IN  /\ rows = Intersect(RenderList(C, F, <<>>, RequestFields), matches)
        /\ rows = ByStatus(matches, F)
        /\ ~debounce.requests => rendered.requests = rows

\* a status filter and a search are both in force, each keeps a row the other
\* drops, and nothing is left to show
C7_Witness ==
    /\ state.filters.requests # "all"
    /\ search.requests # <<>>
    /\ ~debounce.requests
    /\ Len(ByStatus(state.requests, state.filters.requests)) = 1
    /\ Len(filterBySearch(state.requests, search.requests, RequestFields)) = 1
    /\ rendered.requests = <<>>

(***************************************************************************)
(* C8: a filter function changes only its own entry of state.filters: the  *)
(* collections, the profile and the other filters stay, nothing is sent,   *)
(* and the render it triggers leaves the collection alone.                 *)
(***************************************************************************)
C8_FilterFrame ==
    [][state'.filters # state.filters =>
          /\ \E r \in Resources : \A q \in Resources \ {r} :
                state'.filters[q] = state.filters[q]
          /\ \A r \in Resources : state'[r] = state[r]
          /\ state'.profile = state.profile
          /\ UNCHANGED <<loads, marks, auths, saving, timers>>]_vars

\* a status filter hides a cached request that is still cached
C8_Witness ==
    /\ state.filters.requests = "PAID"
    /\ Len(state.requests) = 2
    /\ Len(rendered.requests) < 2

(***************************************************************************)
(* C9: each known status has its label and class, and every other string   *)
(* is passed through by formatStatus and mapped to 'submitted' by          *)
(* getStatusClass.                                                         *)
(***************************************************************************)
C9_LookupsTotal ==
    /\ pure.fn = "formatStatus" =>
          pure.result[1] = IF pure.arg[1] \in DOMAIN statusMap
                           THEN statusMap[pure.arg[1]] ELSE pure.arg[1]
    /\ pure.fn = "getStatusClass" =>
          pure.result[1] = IF pure.arg[1] \in DOMAIN classMap
                           THEN classMap[pure.arg[1]] ELSE "submitted"

(***************************************************************************)
(* C10: filterBySearch returns, in their order, exactly the items with a   *)
(* listed field that contains the term as a case-insensitive substring,    *)
(* and every item when the term is empty.                                  *)
(***************************************************************************)
SameLetter(a, b) == a = b \/ <<a, b>> \in CasePairs \/ <<b, a>> \in CasePairs

ContainsIgnoringCase(text, term) ==
    \E i \in 0..(Len(text) - Len(term)) :
        \A j \in 1..Len(term) : SameLetter(text[i + j], term[j])

Matching(items, term, fields) ==
    SelectSeq(items, LAMBDA item :
        \E f \in fields \cap DOMAIN item : ContainsIgnoringCase(CharsOf(item[f]), term))

C10_FilterBySearch ==
    pure.fn = "filterBySearch" =>
        LET items == pure.arg[1]
            term == pure.arg[2]
            fields == pure.arg[3]
        IN  pure.result[1] = IF term = <<>> THEN items ELSE Matching(items, term, fields)

\* 'Permit' is found by 'perm', in either case, among items that do not match
C10_Witness ==
    /\ pure.fn = "filterBySearch"
    /\ pure.arg[2] = <<"P", "E", "R", "M">>
    /\ Len(pure.arg[1]) = 2
    /\ pure.result[1] = <<[request_type |-> "Permit"]>>

(***************************************************************************)
(* C11: when getProfile() fails, loadDashboardData goes on with the        *)
(* profile synthesized from the cached session (its email), issues the     *)
(* four collection calls, never ends in the error branch because of it,    *)
(* and stores profile and collections as a load whose profile call         *)
(* succeeded does.                                                         *)
(***************************************************************************)
C11_ProfileFallback ==
    [][\A l \in DOMAIN loads :
          /\ (loads[l].pc = "profile" /\ loads'[l].pc = "fetch" /\ loads'[l].pfail) =>
                /\ loads'[l].profile =
                      Some([email |-> getUserData(Stores)[1].email, first_name |-> Null])
                /\ \A r \in Resources : loads'[l].slots[r].st = "pending"
          /\ (loads[l].pc = "fetch" /\ loads[l].pfail) => loads'[l].pc # "error"
          /\ (loads[l].pc = "fetch" /\ loads'[l].pc = "done") =>
                /\ state'.profile = loads[l].profile
                /\ \A r \in Resources :
                      state'[r] = IF loads[l].slots[r].failed THEN <<>>
                                  ELSE loads[l].slots[r].body]_vars

\* a finished load kept the synthesized profile next to the server's requests
C11_Witness ==
    /\ \E l \in DOMAIN loads : loads[l].pc = "done"
    /\ state.profile = Some([email |-> "ann@example.org", first_name |-> Null])
    /\ state.requests = <<ReqA, ReqB>>
    /\ state.payments = <<PayA>>

(***************************************************************************)
(* C12: handleFeedback sends the feedback-creation call only when the      *)
(* rating is at least 1; for any other content of the rating input (0,     *)
(* negative, empty, not a number) it shows a validation failure and sends  *)
(* nothing.                                                                *)
(***************************************************************************)
RatingAtLeastOne(value) == value \in {"1", "5"}

C12_RatingValidated ==
    [][(last'.op = "handleFeedback" /\ forms.feedback.pc = "idle") =>
          IF RatingAtLeastOne(last'.data[1].input)
          THEN /\ forms'.feedback.pc = "sent"
               /\ \E req \in sent' : req.method = "POST" /\ req.endpoint = <<"/feedbacks/">>
          ELSE /\ sent' = {}
               /\ forms'.feedback.pc = "idle"
               /\ \E i \in DOMAIN shown' : shown'[i].type = "error"]_vars

(***************************************************************************)
(* C13: in handleNewRequest, when the request was created and the upload   *)
(* of its attachment fails, the outcome is presented differently (another  *)
(* channel, element or message type) from the outcome of a failed          *)
(* creation, and no delete or update call is issued for the created        *)
(* request.                                                                *)
(***************************************************************************)
Presentation(out) == <<out.via, out.target, out.type>>

C13_UploadFailureDistinct ==
    [][(forms.request.pc = "upload" /\ forms'.request.pc = "idle" /\ last'.throws) =>
          /\ \E i \in DOMAIN shown' :
                Presentation(shown'[i]) # Presentation(RequestFailure(last'))
          /\ \A req \in sent' : req.method \notin {"DELETE", "PUT"}]_vars

(***************************************************************************)
(* C14: once handleNewRequest has created a request and its optional       *)
(* upload step is over, the refresh of the requests collection is          *)
(* scheduled, and the refresh changes only state.requests.                 *)
(***************************************************************************)
C14_RefreshAfterCreate ==
    [][/\ (forms.request.pc \in {"create", "upload"} /\ forms'.request.pc = "idle"
           /\ forms'.request.created) =>
             timers'.requests = timers.requests + 1
       /\ (forms.refresh.pc = "fetch" /\ forms'.refresh.pc = "idle") =>
             /\ state'.complaints = state.complaints
             /\ state'.payments = state.payments
             /\ state'.notifications = state.notifications
             /\ state'.profile = state.profile
             /\ state'.filters = state.filters]_vars

(***************************************************************************)
(* C17: every request the client sends, file uploads included, carries     *)
(* the Authorization header exactly when the session store holds a token   *)
(* at the time of the call, and the header then carries that token; with   *)
(* no token there is no header.                                            *)
(***************************************************************************)
C17_BearerIffToken ==
    [][\A req \in sent' :
          LET token == getAuthToken(Stores')
          IN  req.auth = IF token = Null THEN <<>> ELSE <<token>>]_vars

(***************************************************************************)
(* C15: saveProfile calls the profile-update endpoint first; the full      *)
(* loadDashboardData is scheduled exactly when that call succeeded and     *)
(* starts only from that timer, so a failed update changes no cached       *)
(* collection and no profile.                                              *)
(***************************************************************************)
LoadStarts == \E l \in DOMAIN loads : loads[l].pc = "idle" /\ loads'[l].pc # "idle"

C15_SaveThenReload ==
    [][/\ (~saving /\ saving') =>
             /\ \E req \in sent' : req.method = "PUT" /\ req.endpoint = <<"/citizens/me">>
             /\ ~LoadStarts
             /\ timers' = timers
             /\ state' = state
       /\ (saving /\ ~saving') =>
             /\ timers'.load = IF last'.throws THEN timers.load ELSE timers.load + 1
             /\ ~LoadStarts
             /\ state' = state
             /\ rendered' = rendered
       /\ timers'.load > timers.load => (saving /\ ~saving' /\ ~last'.throws)
       /\ LoadStarts => (timers.load > 0 /\ timers'.load = timers.load - 1)]_vars

C15_Witness ==
    /\ \E l \in DOMAIN loads : l > 1 /\ loads[l].pc = "done"
    /\ timers.load = 0
    /\ ~saving
    /\ state.profile = Some(ServerProfile)

(***************************************************************************)
(* C16: requireRole checks authentication before the role.  A caller       *)
(* without a token is sent to the login page, sees no access-denied        *)
(* message and gets false; a caller with a token whose cached role is      *)
(* another one gets the access-denied message, the redirect and false;     *)
(* true is returned only with a token and the required cached role.        *)
(***************************************************************************)
C16_AuthBeforeRole ==
    [][last'.op = "requireRole" =>
          LET call == last'.data[1]
              authed == getAuthToken(Stores) # Null
              cached == getUserData(Stores)
              roleOk == cached # None /\ cached[1].role = call.role
              denied == \E i \in DOMAIN shown' : shown'[i].via = "alert"
          IN  /\ ~authed => (~call.result /\ location' = AuthPage /\ ~denied
                             /\ returnUrl' = location)
              /\ (authed /\ ~roleOk) => (~call.result /\ denied
                                         /\ location' = call.redirectUrl)
              /\ call.result <=> (authed /\ roleOk)
              /\ call.result => (location' = location /\ ~denied)
              /\ Stores' = Stores]_vars

C16_Witness ==
    /\ last.op = "requireRole"
    /\ isAuthenticated(Stores)
    /\ ~last.data[1].result
    /\ location = last.data[1].redirectUrl
    /\ \E i \in DOMAIN shown : shown[i] = AccessDenied(last.data[1].role)

(***************************************************************************)
(* C18: apiRequest reports a transport failure with a message no server    *)
(* error shares: 'Cannot connect to server' is the message of a call       *)
(* exactly when the transport failed, never when the server answered with  *)
(* a non-success status, whatever its body says.                           *)
(***************************************************************************)
C18_TransportDistinct ==
    pure.fn = "apiRequest" =>
        LET resp == pure.arg[2]
            out == pure.result[1]
        IN  (out.throws /\ out.msg = CannotConnect) <=> ~resp.net

(***************************************************************************)
(* C19: no network error is dropped silently.  In loadDashboardData, the   *)
(* step in which a failed profile fetch or a failed collection fetch is    *)
(* caught leaves a console trace or a message for the user.                *)
(***************************************************************************)
C19_NoSilentDrop ==
    [][\A l \in DOMAIN loads :
          /\ (loads[l].pc = "profile" /\ loads'[l].pc # "profile" /\ loads'[l].pfail) =>
                shown' # <<>>
          /\ \A r \in Resources :
                (loads[l].slots[r].st = "pending" /\ loads'[l].slots[r].st # "pending"
                 /\ loads'[l].slots[r].failed) => shown' # <<>>]_vars

(***************************************************************************)
(* C20: the stored session is destroyed only by a logout or by a 401       *)
(* response.  A step that removes the token or the cached profile is a     *)
(* confirmed logout or the handling of a response with status 401; a       *)
(* network error or a server error leaves both in place.                   *)
(***************************************************************************)
C20_DestroyedOnlyByLogoutOr401 ==
    [][(\/ getAuthToken(Stores) # Null /\ getAuthToken(Stores') = Null
        \/ getUserData(Stores) # None /\ getUserData(Stores') = None) =>
          \/ last'.op = "logout"
          \/ last'.net /\ last'.status = 401]_vars

(***************************************************************************)
(* C21: after a successful login or registration, whatever the remember    *)
(* values of this and of the earlier sessions, getAuthToken() and          *)
(* getUserData() return the token and the profile of that login or         *)
(* registration, never those of an earlier session.                        *)
(***************************************************************************)
C21_LatestSessionWins ==
    [][(last'.op \in {"login", "register"} /\ ~last'.throws) =>
          LET data == last'.data[1]
          IN  /\ getAuthToken(Stores') = data.access_token
              /\ getUserData(Stores') =
                    <<[user_id |-> data.user_id, email |-> data.email,
                       role |-> data.role]>>]_vars

(***************************************************************************)
(* C22: while the session lives in the ephemeral scope only (a login with  *)
(* remember false over an empty durable scope), the only steps that write  *)
(* a token or a profile into localStorage are a new remembered login or a  *)
(* registration; getCurrentUser and initAuth never do.                     *)
(***************************************************************************)
C22_EphemeralStaysEphemeral ==
    [][(/\ localStorage = EmptyScope
        /\ sessionStorage.access_token # Null
        /\ localStorage' # EmptyScope) =>
          /\ last'.op \in {"login", "register"}
          /\ ~last'.throws
          /\ last'.arg = 1]_vars

(***************************************************************************)
(* C23: when refreshes of a collection overlap, a response that arrives    *)
(* late from an earlier fetch never overwrites a newer one: a load that    *)
(* completes after a load whose collection calls were issued later leaves  *)
(* the cached collections as that later load stored them.                  *)
(***************************************************************************)
C23_LateResponseNeverOverwrites ==
    [][\A l \in DOMAIN loads :
          (/\ loads[l].pc = "fetch"
           /\ loads'[l].pc = "done"
           /\ \E k \in DOMAIN loads : loads[k].pc = "done" /\ loads[k].seq > loads[l].seq) =>
             \A r \in Resources : state'[r] = state[r]]_vars

(***************************************************************************)
(* C24: when the dashboard page loads with no token in the session store,  *)
(* the page is redirected to the login page and the load issues no API     *)
(* request, neither for the profile nor for a collection.                  *)
(***************************************************************************)
C24_AnonymousLoadIsSilent ==
    [][(~booted /\ booted' /\ getAuthToken(Stores) = Null) =>
          (location' = AuthPage /\ sent' = {})]_vars

(***************************************************************************)
(* C25: a login or a registration that fails, whatever the failure,        *)
(* leaves the session store as it was: the token and the profile held      *)
(* before the attempt are still held after it.                             *)
(***************************************************************************)
C25_FailedLoginKeepsSession ==
    [][\A a \in DOMAIN auths :
          (/\ auths[a].pc = "sent"
           /\ auths[a].op \in {"login", "register"}
           /\ auths'[a].pc = "idle"
           /\ last'.throws) =>
             /\ localStorage' = localStorage
             /\ sessionStorage' = sessionStorage]_vars

====
